---- MODULE Spec2Model ----
(***************************************************************************)
(* Memory-management core of the stateful chatbot: the Redis-backed        *)
(* ChatRepository, the two context-bounding strategies and ChatService.ask *)
(* Texts are sequences of one-character strings, so that strip(), join()   *)
(* and len() are computed as Python computes them.                         *)
(***************************************************************************)
EXTENDS Integers, Sequences, FiniteSets, TLC

(* ------------------------------ bounds --------------------------------- *)
\* total number of requests (or repository appends) issued in one behaviour
MaxRequests == 3
\* total number of requests issued when two workers run concurrently
MaxConcRequests == 2
\* largest limit / keep_last handed directly to the repository
MaxLimit == 4
\* most messages in a Session handed directly to a memory strategy
MaxSessionLen == 4
\* longest text (and longest extension) handed directly to estimate_tokens
MaxTextLen == 5

(* --------------------------- Python helpers ---------------------------- *)
Min2(a, b) == IF a <= b THEN a ELSE b
Max2(a, b) == IF a >= b THEN a ELSE b

\* characters str.strip() removes
Whitespace == {" ", "\n", "\t"}

\* str.lstrip() / str.rstrip() / str.strip()
RECURSIVE lstrip(_)
lstrip(s) ==
    IF s = <<>> THEN s
    ELSE IF Head(s) \in Whitespace THEN lstrip(Tail(s)) ELSE s
RECURSIVE rstrip(_)
rstrip(s) ==
    IF s = <<>> THEN s
    ELSE IF s[Len(s)] \in Whitespace THEN rstrip(SubSeq(s, 1, Len(s) - 1)) ELSE s
strip(s) == rstrip(lstrip(s))

\* sep.join(parts)
RECURSIVE join(_, _)
join(sep, parts) ==
    IF parts = <<>> THEN <<>>
    ELSE IF Len(parts) = 1 THEN parts[1]
    ELSE parts[1] \o sep \o join(sep, Tail(parts))

\* lst[:stop] with Python's index normalisation
SliceTo(lst, stop) ==
    LET n == Len(lst)
        e == IF stop < 0 THEN Max2(n + stop, 0) ELSE Min2(stop, n)
    IN SubSeq(lst, 1, e)

\* lst[start:] with Python's index normalisation
SliceFrom(lst, start) ==
    LET n == Len(lst)
        b == IF start < 0 THEN Max2(n + start, 0) ELSE Min2(start, n)
    IN SubSeq(lst, b + 1, n)

\* Optional values: {} is None, {v} is the value v.
None == {}
Some(v) == {v}
Val(o) == CHOOSE v \in o : TRUE
\* Python truthiness of an Optional[int] / Optional[str] / str
FalsyInt(o) == o = None \/ o = {0}
FalsyStr(o) == o = None \/ o = {""}

(* ------------------------------ literals ------------------------------- *)
NL == <<"\n">>
ColonSpace == <<":", " ">>
SummarySoFar == <<"S","U","M","M","A","R","Y"," ","S","O"," ","F","A","R",":","\n">>
RecentMessages == <<"R","E","C","E","N","T"," ","M","E","S","S","A","G","E","S",":">>
AssistantMarker == <<"\n","\n","A","S","S","I","S","T","A","N","T",":">>
ExistingSummary == <<"E","x","i","s","t","i","n","g"," ","s","u","m","m","a","r","y",":","\n">>
NewMessages ==
    <<"\n","\n","N","e","w"," ","m","e","s","s","a","g","e","s"," ","t","o"," ",
      "i","n","c","o","r","p","o","r","a","t","e",":","\n">>

\* m.role.upper()
RoleUpper(role) ==
    IF role = "user" THEN <<"U","S","E","R">>
    ELSE <<"A","S","S","I","S","T","A","N","T">>

(* ------------------------------- tokens -------------------------------- *)
\* (mutant) without the early return for blank text
estimate_tokens_no_blank_check(text) == Max2(1, Len(text) \div 4)

estimate_tokens(text) ==
    IF text = <<>> \/ strip(text) = <<>> THEN 0
    ELSE Max2(1, Len(text) \div 4)

(* --------------------------- memory.py --------------------------------- *)
Message(role, content) == [role |-> role, content |-> content]

\* f"{m.role.upper()}: {m.content}"
MessageLine(m) == RoleUpper(m.role) \o ColonSpace \o m.content

\* ChatSession.transcript()
transcript(session) ==
    LET p1 == IF strip(session.summary) # <<>>
              THEN << SummarySoFar \o strip(session.summary) >> ELSE <<>>
        p2 == IF session.messages # <<>>
              THEN << RecentMessages >> \o
                   [k \in 1..Len(session.messages) |-> MessageLine(session.messages[k])]
              ELSE <<>>
    IN strip(join(NL, p1 \o p2))

\* (mutant) the window keeps one message more than window_size
apply_sliding_window_plus_one(session, window_size) ==
    IF window_size <= 0 THEN [session EXCEPT !.messages = <<>>]
    ELSE IF Len(session.messages) > window_size + 1
         THEN [session EXCEPT !.messages = SliceFrom(session.messages, -(window_size + 1))]
         ELSE session

apply_sliding_window(session, window_size) ==
    IF window_size <= 0 THEN [session EXCEPT !.messages = <<>>]
    ELSE IF Len(session.messages) > window_size
         THEN [session EXCEPT !.messages = SliceFrom(session.messages, -window_size)]
         ELSE session

\* (mutant) a list of exactly max_messages messages is compacted too
rolling_plan_strict(session, max_messages, keep_last) ==
    LET n == Len(session.messages)
        kl == Max2(0, keep_last)
        older == IF kl < n THEN SliceTo(session.messages, -kl) ELSE <<>>
        recent == IF kl > 0 THEN SliceFrom(session.messages, -kl) ELSE <<>>
        lines == join(NL, [k \in 1..Len(older) |-> MessageLine(older[k])])
        text == IF strip(session.summary) # <<>>
                THEN ExistingSummary \o strip(session.summary) \o NewMessages \o lines
                ELSE lines
    IN [noop |-> (max_messages <= 0) \/ (n < max_messages) \/ (older = <<>>),
        older |-> older, recent |-> recent, older_transcript |-> text]

\* the part of apply_rolling_summary before provider.summarize: the early
\* returns, the older/recent partition and the text handed to summarize
rolling_plan(session, max_messages, keep_last) ==
    LET n == Len(session.messages)
        kl == Max2(0, keep_last)
        older == IF kl < n THEN SliceTo(session.messages, -kl) ELSE <<>>
        recent == IF kl > 0 THEN SliceFrom(session.messages, -kl) ELSE <<>>
        lines == join(NL, [k \in 1..Len(older) |-> MessageLine(older[k])])
        text == IF strip(session.summary) # <<>>
                THEN ExistingSummary \o strip(session.summary) \o NewMessages \o lines
                ELSE lines
    IN [noop |-> (max_messages <= 0) \/ (n <= max_messages) \/ (older = <<>>),
        older |-> older, recent |-> recent, older_transcript |-> text]

\* (mutant) the summary is replaced but session.messages is not cut to `recent`
rolling_finish_keeps_all(session, plan, out) ==
    [summary |-> strip(out), messages |-> session.messages]

\* the part of apply_rolling_summary after provider.summarize returned `out`
rolling_finish(session, plan, out) ==
    [summary |-> strip(out), messages |-> plan.recent]

(* --------------------------- redis_store.py ---------------------------- *)
\* (mutant) one log key for every session
_key_messages_shared(session_id) == <<"chat:session:", "A", ":messages">>

_key_messages(session_id) == <<"chat:session:", session_id, ":messages">>
_key_summary(session_id) == <<"chat:session:", session_id, ":summary">>

\* json.dumps({"role": .., "content": ..}) : the stored form is a pair
_serialize_message(m) == <<m.role, m.content>>
\* json.loads(..) back into a Message
_deserialize_message(s) == Message(s[1], s[2])

\* Redis LRANGE key start stop (0-based, negative indexes count from the end)
LRANGE(lst, start, stop) ==
    LET n == Len(lst)
        s0 == IF start < 0 THEN n + start ELSE start
        e0 == IF stop < 0 THEN n + stop ELSE stop
        s1 == IF s0 < 0 THEN 0 ELSE s0
        e1 == IF e0 >= n THEN n - 1 ELSE e0
    IN IF s1 > e0 \/ s1 >= n THEN <<>> ELSE SubSeq(lst, s1 + 1, e1 + 1)

\* Redis LTRIM key start stop: keep only the range
LTRIM(lst, start, stop) == LRANGE(lst, start, stop)

\* Redis RPUSH key value
RPUSH(lst, v) == Append(lst, v)

\* (mutant) the oldest limit entries instead of the newest
get_last_messages_head(lists, session_id, limit) ==
    LET raw == LRANGE(lists[_key_messages(session_id)], 0, limit - 1)
    IN [k \in 1..Len(raw) |-> _deserialize_message(raw[k])]

get_last_messages(lists, session_id, limit) ==
    LET raw == LRANGE(lists[_key_messages(session_id)], -limit, -1)
    IN [k \in 1..Len(raw) |-> _deserialize_message(raw[k])]

get_summary(strings, session_id) ==
    LET val == strings[_key_summary(session_id)]
    IN IF val = None \/ val = {<<>>} THEN <<>> ELSE strip(Val(val))

set_summary(strings, session_id, summary) ==
    [strings EXCEPT ![_key_summary(session_id)] = Some(summary)]

\* (mutant) LTRIM 0 keep_last-1: the oldest entries are kept
trim_messages_head(lists, session_id, keep_last) ==
    IF keep_last <= 0
    THEN [lists EXCEPT ![_key_messages(session_id)] = <<>>]
    ELSE [lists EXCEPT ![_key_messages(session_id)] = LTRIM(@, 0, keep_last - 1)]

trim_messages(lists, session_id, keep_last) ==
    IF keep_last <= 0
    THEN [lists EXCEPT ![_key_messages(session_id)] = <<>>]
    ELSE [lists EXCEPT ![_key_messages(session_id)] = LTRIM(@, -keep_last, -1)]

\* append_messages: one RPUSH per message, in the given order
RECURSIVE append_messages(_, _, _)
append_messages(lists, session_id, messages) ==
    IF messages = <<>> THEN lists
    ELSE append_messages(
            [lists EXCEPT ![_key_messages(session_id)] =
                               RPUSH(@, _serialize_message(messages[1]))],
            session_id, Tail(messages))

(* ----------------------------- providers ------------------------------- *)
UpperLetters == <<"A","B","C","D","E","F","G","H","I","J","K","L","M",
                  "N","O","P","Q","R","S","T","U","V","W","X","Y","Z">>
LowerLetters == <<"a","b","c","d","e","f","g","h","i","j","k","l","m",
                  "n","o","p","q","r","s","t","u","v","w","x","y","z">>
\* str.lower()
lower(s) ==
    [k \in 1..Len(s) |->
        IF \E j \in 1..26 : UpperLetters[j] = s[k]
        THEN LowerLetters[CHOOSE j \in 1..26 : UpperLetters[j] = s[k]]
        ELSE s[k]]

GeminiText == <<"g","e","m","i","n","i">>
OllamaText == <<"o","l","l","a","m","a">>
LocalText == <<"l","o","c","a","l">>

\* ChatService._get_gemini: the Gemini backend needs GOOGLE_API_KEY
_get_gemini(cfg) == cfg.google_api_key # <<>>

\* (mutant) an unknown selector falls through to the local backend
_get_provider_lenient(cfg, provider) ==
    LET p == strip(lower(provider))
    IN IF p \in {GeminiText, <<>>}
       THEN (IF _get_gemini(cfg) THEN "gemini" ELSE "ollama")
       ELSE "ollama"

\* ChatService._get_provider: the backend's name, or "ValueError"
_get_provider(cfg, provider) ==
    LET p == strip(lower(provider))
    IN IF p \in {GeminiText, <<>>}
       THEN (IF _get_gemini(cfg) THEN "gemini" ELSE "ValueError")
       ELSE IF p \in {OllamaText, LocalText} THEN "ollama"
       ELSE "ValueError"

(* ------------------------ bounded input domains ------------------------ *)
SessionIds == {"A", "B"}
ListKeys == {_key_messages(s) : s \in SessionIds}
StringKeys == {_key_summary(s) : s \in SessionIds}

Digits == <<"1","2","3","4","5","6","7","8","9">>
\* the prompt of the n-th request (the second one ends in a blank), and what
\* the backend may answer to it
PromptOf(n) == IF n = 2 THEN <<"q", Digits[n], " ">> ELSE <<"q", Digits[n]>>
Replies(n) == { <<"a", Digits[n]>>, <<" ", "a", Digits[n], "\n">> }
\* what the backend's summarize may return
Summaries == { <<" ", "s", "m">>, <<>> }

\* provider selectors a caller may send
Selectors == { GeminiText, <<" ","O","l","l","a","m","a">>,
               <<"c","h","a","t","g","p","t">> }
SessionArgs == {None} \cup {Some(s) : s \in SessionIds}
MemoryArgs == {None, Some("window"), Some("none"), Some("bogus")}
MaxMessagesArgs == {None, Some(0), Some(4)}
KeepLastArgs == {None, Some(0), Some(2)}
WindowSizeArgs == {None, Some(0), Some(3)}

\* configurations (Settings) the service may be started with: a base
\* configuration and every configuration that differs from it in one option
BaseSettings ==
    [ google_api_key |-> <<>>, memory_strategy |-> "rolling", fetch_last_n |-> 3,
      max_tokens_before_summarize |-> 10, max_messages |-> 2, keep_last |-> 1,
      window_size |-> 2 ]
SettingsSet ==
    { c \in [ google_api_key : {<<>>, <<"k">>},
              memory_strategy : {"rolling"},
              fetch_last_n : {0, 1, 3},
              max_tokens_before_summarize : {10},
              max_messages : {0, 2},
              keep_last : {0, 1},
              window_size : {0, 2} ] :
        Cardinality({f \in DOMAIN c : c[f] # BaseSettings[f]}) <= 1 }

(* ------------------------------- state --------------------------------- *)
VARIABLES
    settings,        \* Settings, fixed at start-up
    redis_lists,     \* Redis list keys: key -> sequence of serialized messages
    redis_strings,   \* Redis string keys: key -> None or Some(text)
    req,             \* per worker: the ask() call in flight, its arguments, locals,
                     \* position, the calls it has made, and the store as it found it
    nreq,            \* number of requests issued so far
    appended,        \* history: per list key, every value ever RPUSHed, in order
    repo_call,       \* the last direct call of a ChatRepository method, with its result
    applied          \* the last direct call of a function of memory.py or tokens.py,
                     \* with its arguments, the backend call it made and its result

vars == <<settings, redis_lists, redis_strings, req, nreq, appended, repo_call, applied>>

Workers == {1, 2}

EmptySession == [summary |-> <<>>, messages |-> <<>>]

Idle ==
    [ pc |-> "idle", n |-> 0, prompt |-> <<>>, provider |-> <<>>,
      session_id |-> None, memory |-> None,
      max_messages |-> None, keep_last |-> None, window_size |-> None,
      provider_name |-> "", mem |-> "", session |-> EmptySession,
      keep_last_n |-> 0, max_msg |-> 0, win_size |-> 0,
      before |-> EmptySession, summarize_out |-> None,
      reply |-> <<>>, error |-> "",
      calls |-> <<>>, pre_lists |-> <<>>, pre_strings |-> <<>> ]

Call(op, sid, n, text) == [op |-> op, sid |-> sid, n |-> n, text |-> text]

NoCall == [op |-> "", n |-> 0, of |-> <<>>, result |-> <<>>]

NotApplied ==
    [ op |-> "", session |-> EmptySession, max_messages |-> 0, keep_last |-> 0,
      window_size |-> 0, summarize |-> <<>>, raised |-> FALSE,
      out |-> None, result |-> EmptySession, text |-> <<>>, more |-> <<>>,
      tokens |-> 0, tokens_more |-> 0 ]

Init ==
    /\ settings \in SettingsSet
    /\ redis_lists = [k \in ListKeys |-> <<>>]
    /\ redis_strings = [k \in StringKeys |-> None]
    /\ req = [w \in Workers |-> Idle]
    /\ nreq = 0
    /\ appended = [k \in ListKeys |-> <<>>]
    /\ repo_call = NoCall
    /\ applied = NotApplied

(* ------------------------- ChatService.ask ----------------------------- *)
\* mem = memory or settings.memory_strategy or "rolling"; unknown -> "rolling"
resolve_memory(cfg, memory) ==
    LET m == IF ~FalsyStr(memory) THEN Val(memory)
             ELSE IF cfg.memory_strategy # "" THEN cfg.memory_strategy
             ELSE "rolling"
    IN IF m \in {"rolling", "window", "none"} THEN m ELSE "rolling"

\* (mutant) only a missing session id selects the stateless path
stateless_ignores_mode(session_id, mem) == FalsyStr(session_id)

\* not session_id or mem == "none"
stateless(session_id, mem) == FalsyStr(session_id) \/ mem = "none"

\* (mutant) the window_size override is ignored
win_size_default_only(cfg, window_size) == cfg.window_size

\* keep_last or settings.keep_last (and the two lines after it)
keep_last_n(cfg, keep_last) == IF FalsyInt(keep_last) THEN cfg.keep_last ELSE Val(keep_last)
max_msg(cfg, max_messages) == IF FalsyInt(max_messages) THEN cfg.max_messages ELSE Val(max_messages)
win_size(cfg, window_size) == IF FalsyInt(window_size) THEN cfg.window_size ELSE Val(window_size)

_session_tokens(session) == estimate_tokens(transcript(session))

\* (mutant) the compiled prompt without the assistant-turn marker
compiled_prompt_no_marker(session) == strip(transcript(session))

\* session.transcript().strip() + "\n\nASSISTANT:"
compiled_prompt(session) == strip(transcript(session)) \o AssistantMarker

user_msg(r) == Message("user", r.prompt)
assistant_msg(r) == Message("assistant", r.reply)
Sid(r) == Val(r.session_id)

Set(w, r) == req' = [req EXCEPT ![w] = r]
Logged(r, c) == [r EXCEPT !.calls = Append(@, c)]

\* ask, lines 86-95: resolve the provider and the memory mode, choose the path
\* (overrides that the chosen path never reads are left unset)
AskIn(w, limit, dom) ==
    /\ req[w].pc = "idle"
    /\ nreq < limit
    /\ \E provider \in dom.selectors, session_id \in dom.sessions,
          memory \in dom.memories :
         LET name == _get_provider(settings, provider)
             mem == resolve_memory(settings, memory)
             path == IF name = "ValueError" THEN "failed"
                     ELSE IF stateless(session_id, mem) THEN "generate_raw"
                     ELSE "get_summary"
         IN \E max_messages \in (IF path = "get_summary" /\ mem = "rolling"
                                 THEN dom.max_messages ELSE {None}),
               keep_last \in (IF path = "get_summary" /\ mem = "rolling"
                              THEN dom.keep_last ELSE {None}),
               window_size \in (IF path = "get_summary" /\ mem = "window"
                                THEN dom.window_size ELSE {None}) :
              LET r == [Idle EXCEPT
                          !.n = nreq + 1, !.prompt = PromptOf(nreq + 1),
                          !.provider = provider, !.session_id = session_id,
                          !.memory = memory, !.max_messages = max_messages,
                          !.keep_last = keep_last, !.window_size = window_size,
                          !.pre_lists = redis_lists, !.pre_strings = redis_strings]
              IN IF path = "failed"
                 THEN Set(w, [r EXCEPT !.pc = "failed", !.error = "ValueError"])
                 ELSE Set(w, [r EXCEPT !.pc = path, !.provider_name = name,
                                       !.mem = mem])
    /\ nreq' = nreq + 1
    /\ UNCHANGED <<settings, redis_lists, redis_strings, appended, repo_call, applied>>

Ask(w) ==
    AskIn(w, MaxRequests,
          [selectors |-> Selectors, sessions |-> SessionArgs, memories |-> MemoryArgs,
           max_messages |-> MaxMessagesArgs, keep_last |-> KeepLastArgs,
           window_size |-> WindowSizeArgs])

\* the same entry point, for the workers that run concurrently: fewer requests,
\* one backend, one session id (or none)
ConcAsk(w) ==
    AskIn(w, MaxConcRequests,
          [selectors |-> {LocalText}, sessions |-> {None, Some("A")},
           memories |-> {None, Some("window")},
           max_messages |-> {None}, keep_last |-> {None}, window_size |-> {None}])

\* line 94: reply = llm.generate(prompt), returned as it is
GenerateRaw(w) ==
    LET r == Logged(req[w], Call("generate", "", 0, req[w].prompt))
    IN /\ req[w].pc = "generate_raw"
       /\ \/ \E out \in Replies(r.n) : Set(w, [r EXCEPT !.pc = "done", !.reply = out])
          \/ Set(w, [r EXCEPT !.pc = "failed", !.error = "BackendError"])
       /\ UNCHANGED <<settings, redis_lists, redis_strings, nreq, appended, repo_call, applied>>

\* line 99: summary = self._repo.get_summary(session_id)
GetSummary(w) ==
    LET r == Logged(req[w], Call("get_summary", Sid(req[w]), 0, <<>>))
    IN /\ req[w].pc = "get_summary"
       /\ Set(w, [r EXCEPT !.pc = "get_last_messages",
                           !.session.summary = get_summary(redis_strings, Sid(r))])
       /\ UNCHANGED <<settings, redis_lists, redis_strings, nreq, appended, repo_call, applied>>

\* lines 98-124: fetch the last fetch_n messages, add the user message, and
\* bound the session up to the next call that leaves the process
GetLastMessages(w) ==
    LET fetch_n == settings.fetch_last_n
        r0 == Logged(req[w], Call("get_last_messages", Sid(req[w]), fetch_n, <<>>))
        messages == get_last_messages(redis_lists, Sid(r0), fetch_n)
        session == [summary |-> r0.session.summary,
                    messages |-> Append(messages, user_msg(r0))]
        r == [r0 EXCEPT !.keep_last_n = keep_last_n(settings, r0.keep_last),
                        !.max_msg = max_msg(settings, r0.max_messages),
                        !.win_size = win_size(settings, r0.window_size),
                        !.session = session, !.before = session]
        plan == rolling_plan(session, r.max_msg, r.keep_last_n)
    IN /\ req[w].pc = "get_last_messages"
       /\ IF r.mem = "rolling"
          THEN IF _session_tokens(session) > settings.max_tokens_before_summarize
               THEN Set(w, [r EXCEPT !.pc = IF plan.noop THEN "set_summary"
                                            ELSE "summarize"])
               ELSE Set(w, [r EXCEPT !.pc = "generate"])
          ELSE Set(w, [r EXCEPT
                        !.session = apply_sliding_window(session, r.win_size),
                        !.pc = "generate"])
       /\ UNCHANGED <<settings, redis_lists, redis_strings, nreq, appended, repo_call, applied>>

\* (mutant) a failing summarize is swallowed and the request carries on
Summarize_swallow(w) ==
    LET plan == rolling_plan(req[w].session, req[w].max_msg, req[w].keep_last_n)
        r == Logged(req[w], Call("summarize", "", 0, plan.older_transcript))
    IN /\ req[w].pc = "summarize"
       /\ \/ \E out \in Summaries :
               Set(w, [r EXCEPT !.pc = "set_summary", !.summarize_out = Some(out),
                                !.session = rolling_finish(r.session, plan, out)])
          \/ Set(w, [r EXCEPT !.pc = "set_summary"])
       /\ UNCHANGED <<settings, redis_lists, redis_strings, nreq, appended, repo_call, applied>>

\* memory.py line 73: session.summary = provider.summarize(older_transcript).strip()
Summarize(w) ==
    LET plan == rolling_plan(req[w].session, req[w].max_msg, req[w].keep_last_n)
        r == Logged(req[w], Call("summarize", "", 0, plan.older_transcript))
    IN /\ req[w].pc = "summarize"
       /\ \/ \E out \in Summaries :
               Set(w, [r EXCEPT !.pc = "set_summary", !.summarize_out = Some(out),
                                !.session = rolling_finish(r.session, plan, out)])
          \/ Set(w, [r EXCEPT !.pc = "failed", !.error = "BackendError"])
       /\ UNCHANGED <<settings, redis_lists, redis_strings, nreq, appended, repo_call, applied>>

\* line 121: self._repo.set_summary(session_id, session.summary)
SetSummary(w) ==
    LET r == Logged(req[w], Call("set_summary", Sid(req[w]), 0, req[w].session.summary))
    IN /\ req[w].pc = "set_summary"
       /\ redis_strings' = set_summary(redis_strings, Sid(r), r.session.summary)
       /\ Set(w, [r EXCEPT !.pc = "trim_keep"])
       /\ UNCHANGED <<settings, redis_lists, nreq, appended, repo_call, applied>>

\* line 122: self._repo.trim_messages(session_id, keep_last_n)
TrimKeep(w) ==
    LET k == req[w].keep_last_n
        r == Logged(req[w], Call("trim_messages", Sid(req[w]), k, <<>>))
    IN /\ req[w].pc = "trim_keep"
       /\ redis_lists' = trim_messages(redis_lists, Sid(r), k)
       /\ Set(w, [r EXCEPT !.pc = "generate"])
       /\ UNCHANGED <<settings, redis_strings, nreq, appended, repo_call, applied>>

\* (mutant) a failed generate is tried again
Generate_retry(w) ==
    LET cp == compiled_prompt(req[w].session)
        r == Logged(req[w], Call("generate", "", 0, cp))
    IN /\ req[w].pc = "generate"
       /\ \/ \E out \in Replies(r.n) :
               Set(w, [r EXCEPT !.pc = "rpush_user", !.reply = strip(out)])
          \/ Set(w, [r EXCEPT !.pc = IF Len(r.calls) < 8 THEN "generate" ELSE "failed",
                              !.error = IF Len(r.calls) < 8 THEN "" ELSE "BackendError"])
       /\ UNCHANGED <<settings, redis_lists, redis_strings, nreq, appended, repo_call, applied>>

\* lines 127-128: reply = llm.generate(compiled_prompt).strip()
Generate(w) ==
    LET cp == compiled_prompt(req[w].session)
        r == Logged(req[w], Call("generate", "", 0, cp))
    IN /\ req[w].pc = "generate"
       /\ \/ \E out \in Replies(r.n) :
               Set(w, [r EXCEPT !.pc = "rpush_user", !.reply = strip(out)])
          \/ Set(w, [r EXCEPT !.pc = "failed", !.error = "BackendError"])
       /\ UNCHANGED <<settings, redis_lists, redis_strings, nreq, appended, repo_call, applied>>

\* line 132, first pass of the loop in append_messages: RPUSH of the user message
RpushUser(w) ==
    LET r == Logged(req[w], Call("rpush", Sid(req[w]), 0, req[w].prompt))
        key == _key_messages(Sid(r))
        v == _serialize_message(user_msg(r))
    IN /\ req[w].pc = "rpush_user"
       /\ redis_lists' = [redis_lists EXCEPT ![key] = RPUSH(@, v)]
       /\ appended' = [appended EXCEPT ![key] = Append(@, v)]
       /\ Set(w, [r EXCEPT !.pc = "rpush_assistant"])
       /\ UNCHANGED <<settings, redis_strings, nreq, repo_call, applied>>

\* line 132, second pass of the loop: RPUSH of the assistant message
RpushAssistant(w) ==
    LET r == Logged(req[w], Call("rpush", Sid(req[w]), 0, req[w].reply))
        key == _key_messages(Sid(r))
        v == _serialize_message(assistant_msg(r))
    IN /\ req[w].pc = "rpush_assistant"
       /\ redis_lists' = [redis_lists EXCEPT ![key] = RPUSH(@, v)]
       /\ appended' = [appended EXCEPT ![key] = Append(@, v)]
       /\ Set(w, [r EXCEPT !.pc = IF r.mem = "window" THEN "trim_window" ELSE "done"])
       /\ UNCHANGED <<settings, redis_strings, nreq, repo_call, applied>>

\* lines 133-134: in window mode, self._repo.trim_messages(session_id, win_size)
TrimWindow(w) ==
    LET k == req[w].win_size
        r == Logged(req[w], Call("trim_messages", Sid(req[w]), k, <<>>))
    IN /\ req[w].pc = "trim_window"
       /\ redis_lists' = trim_messages(redis_lists, Sid(r), k)
       /\ Set(w, [r EXCEPT !.pc = "done"])
       /\ UNCHANGED <<settings, redis_strings, nreq, appended, repo_call, applied>>

\* ask has returned or raised: the worker is free for the next request
Return(w) ==
    /\ req[w].pc \in {"done", "failed"}
    /\ Set(w, Idle)
    /\ UNCHANGED <<settings, redis_lists, redis_strings, nreq, appended, repo_call, applied>>

Run(w) ==
    \/ GenerateRaw(w) \/ GetSummary(w) \/ GetLastMessages(w)
    \/ Summarize(w) \/ SetSummary(w) \/ TrimKeep(w) \/ Generate(w)
    \/ RpushUser(w) \/ RpushAssistant(w) \/ TrimWindow(w) \/ Return(w)

\* one request in flight at a time (the design's assumption, spec section 5)
Next == Ask(1) \/ Run(1)
Spec == Init /\ [][Next]_vars

\* two workers serving requests concurrently against the same Redis
ConcNext == \E w \in Workers : ConcAsk(w) \/ Run(w)
ConcInit == Init /\ settings = BaseSettings
ConcSpec == ConcInit /\ [][ConcNext]_vars

(* ---------------- ChatRepository, called on its own --------------------- *)
\* append_messages(session_id, messages) with zero, one or two messages
RepoAppend(sid) ==
    /\ nreq < MaxRequests
    /\ \E len \in 0..2 :
         LET n == nreq + 1
             pair == << Message("user", PromptOf(n)),
                        Message("assistant", <<"a", Digits[n]>>) >>
             messages == SubSeq(pair, 1, len)
             key == _key_messages(sid)
         IN /\ redis_lists' = append_messages(redis_lists, sid, messages)
            /\ appended' = [appended EXCEPT ![key] =
                   @ \o [k \in 1..len |-> _serialize_message(messages[k])]]
            /\ repo_call' = [op |-> "append_messages", n |-> len,
                             of |-> redis_lists[key], result |-> redis_lists'[key]]
    /\ nreq' = nreq + 1
    /\ UNCHANGED <<settings, redis_strings, req, applied>>

\* trim_messages(session_id, keep_last)
RepoTrim(sid) ==
    /\ \E keep_last \in -1..MaxLimit :
         LET key == _key_messages(sid)
         IN /\ redis_lists' = trim_messages(redis_lists, sid, keep_last)
            /\ repo_call' = [op |-> "trim_messages", n |-> keep_last,
                             of |-> redis_lists[key], result |-> redis_lists'[key]]
    /\ UNCHANGED <<settings, redis_strings, req, nreq, appended, applied>>

\* get_last_messages(session_id, limit)
RepoGet(sid) ==
    /\ \E limit \in -1..MaxLimit :
         repo_call' = [op |-> "get_last_messages", n |-> limit,
                       of |-> redis_lists[_key_messages(sid)],
                       result |-> get_last_messages(redis_lists, sid, limit)]
    /\ UNCHANGED <<settings, redis_lists, redis_strings, req, nreq, appended, applied>>

StoreInit == Init /\ settings = BaseSettings
StoreNext == \E sid \in SessionIds : RepoAppend(sid) \/ RepoTrim(sid) \/ RepoGet(sid)
StoreSpec == StoreInit /\ [][StoreNext]_vars

(* -------- the memory strategies and the estimator, called directly ------ *)
\* each behaviour is one call, on arguments drawn from the sets below
\* the k-th message of a conversation: user and assistant take turns
Turn(k) == Message(IF k % 2 = 1 THEN "user" ELSE "assistant",
                   << IF k % 2 = 1 THEN "q" ELSE "a", Digits[(k + 1) \div 2] >>)
\* Sessions of up to MaxSessionLen messages, with no, a blank or a real summary
Sessions ==
    { [summary |-> sm, messages |-> [k \in 1..len |-> Turn(k)]] :
        sm \in { <<>>, <<" ">>, <<"s", "0">> }, len \in 0..MaxSessionLen }
\* texts of up to n characters, blank or not
Texts(n) == UNION { [1..k -> {"a", " "}] : k \in 0..n }

\* apply_rolling_summary(session, provider, max_messages, keep_last), with a
\* provider whose summarize returns a text or raises
ApplyRollingSummary ==
    \E session \in Sessions, max_messages \in -1..MaxSessionLen,
       keep_last \in -1..(MaxSessionLen + 1) :
        LET plan == rolling_plan(session, max_messages, keep_last)
            a == [NotApplied EXCEPT !.op = "apply_rolling_summary",
                      !.session = session, !.max_messages = max_messages,
                      !.keep_last = keep_last]
            called == [a EXCEPT !.summarize =
                          << Call("summarize", "", 0, plan.older_transcript) >>]
        IN /\ applied = NotApplied
           /\ IF plan.noop
              THEN applied' = [a EXCEPT !.result = session]
              ELSE \/ \E out \in Summaries \cup {<<"s", "1", "\n">>} :
                        applied' = [called EXCEPT !.out = Some(out),
                                       !.result = rolling_finish(session, plan, out)]
                   \/ applied' = [called EXCEPT !.raised = TRUE, !.result = session]
           /\ UNCHANGED <<settings, redis_lists, redis_strings, req, nreq, appended,
                          repo_call>>

\* apply_sliding_window(session, window_size)
ApplySlidingWindow ==
    \E session \in Sessions, window_size \in -1..(MaxSessionLen + 1) :
        /\ applied = NotApplied
        /\ applied' = [NotApplied EXCEPT !.op = "apply_sliding_window",
                          !.session = session, !.window_size = window_size,
                          !.result = apply_sliding_window(session, window_size)]
        /\ UNCHANGED <<settings, redis_lists, redis_strings, req, nreq, appended,
                       repo_call>>

\* estimate_tokens(text) and estimate_tokens(text + more)
EstimateTokens ==
    \E text \in Texts(MaxTextLen), more \in Texts(MaxTextLen) :
        /\ applied = NotApplied
        /\ applied' = [NotApplied EXCEPT !.op = "estimate_tokens",
                          !.text = text, !.more = more,
                          !.tokens = estimate_tokens(text),
                          !.tokens_more = estimate_tokens(text \o more)]
        /\ UNCHANGED <<settings, redis_lists, redis_strings, req, nreq, appended,
                       repo_call>>

MemoryInit == Init /\ settings = BaseSettings
MemoryNext == ApplyRollingSummary \/ ApplySlidingWindow \/ EstimateTokens
MemorySpec == MemoryInit /\ [][MemoryNext]_vars

(* ------------------- a request cut short by a crash --------------------- *)
\* the process serving a request dies between two of its external calls: the
\* rest of ask never runs, whatever the store already received stays
Crash(w) ==
    /\ req[w].pc \notin {"idle", "done", "failed", "crashed"}
    /\ req[w].calls # <<>>
    /\ Set(w, [req[w] EXCEPT !.pc = "crashed"])
    /\ UNCHANGED <<settings, redis_lists, redis_strings, nreq, appended, repo_call, applied>>

\* worker 1 serves requests one at a time until it crashes; worker 2 is the
\* process started in its place, serving the requests that follow
\* the requests of that deployment: one backend, window or rolling mode (or no
\* session at all), the window_size override as the only override
CrashAsk(w) ==
    AskIn(w, MaxRequests,
          [selectors |-> {LocalText}, sessions |-> {None, Some("A"), Some("B")},
           memories |-> {None, Some("window")},
           max_messages |-> {None}, keep_last |-> {None},
           window_size |-> {None, Some(3)}])

CrashNext ==
    \/ CrashAsk(1) \/ Run(1) \/ Crash(1)
    \/ req[1].pc = "crashed" /\ (CrashAsk(2) \/ Run(2))
CrashInit ==
    /\ Init
    /\ \A f \in DOMAIN settings \ {"fetch_last_n"} : settings[f] = BaseSettings[f]
CrashSpec == CrashInit /\ [][CrashNext]_vars

(* ------------------------------ properties ----------------------------- *)
\* the last k entries of a sequence (all of it when k exceeds its length)
LastN(lst, k) == SubSeq(lst, Len(lst) - Min2(Max2(k, 0), Len(lst)) + 1, Len(lst))
IsSuffix(lst, of) == Len(lst) <= Len(of) /\ lst = LastN(of, Len(lst))
Deserialized(raw) == [k \in 1..Len(raw) |-> _deserialize_message(raw[k])]

\* C6: get_last_messages(session_id, limit) returns at most limit entries (none
\* for limit <= 0), and they are the most recent entries of the log, in log order.
C6_FetchAtMostLimit ==
    repo_call.op = "get_last_messages" =>
        /\ Len(repo_call.result) <= Max2(repo_call.n, 0)
        /\ repo_call.result = Deserialized(LastN(repo_call.of, Len(repo_call.result)))

\* C7: the persisted log is always a contiguous suffix of everything ever
\* appended, in insertion order; trim_messages(k) keeps exactly the last
\* min(k, length) entries for k > 0 and clears the log for k <= 0; append_messages
\* adds the given messages at the newest end.
C7_LogIsSuffixOfAppended ==
    /\ \A sid \in SessionIds :
         IsSuffix(redis_lists[_key_messages(sid)], appended[_key_messages(sid)])
    /\ repo_call.op = "trim_messages" =>
         repo_call.result = IF repo_call.n <= 0 THEN <<>>
                            ELSE LastN(repo_call.of, Min2(repo_call.n, Len(repo_call.of)))
    /\ repo_call.op = "append_messages" =>
         /\ Len(repo_call.result) = Len(repo_call.of) + repo_call.n
         /\ SubSeq(repo_call.result, 1, Len(repo_call.of)) = repo_call.of

\* C7 witness: a trim with 0 < k < length has cut the oldest entries off a log
\* built by several appends
C7_Witness ==
    /\ repo_call.op = "trim_messages"
    /\ repo_call.n > 0
    /\ repo_call.n < Len(repo_call.of)
    /\ Len(repo_call.of) >= 3
    /\ Len(repo_call.result) = repo_call.n

(* ---------------- properties of ChatService.ask ------------------------ *)
ChatGptText == <<"c","h","a","t","g","p","t">>

\* the value a request is meant to run with: its override, or (when the
\* override is absent or 0) the configured default
Effective(override, default) ==
    IF override = None \/ override = {0} THEN default ELSE Val(override)
EffWindow(r) == Effective(r.window_size, settings.window_size)
EffKeepLast(r) == Effective(r.keep_last, settings.keep_last)
EffMaxMessages(r) == Effective(r.max_messages, settings.max_messages)

Ops(r) == [k \in 1..Len(r.calls) |-> r.calls[k].op]
CallsTo(r, op) == SelectSeq(r.calls, LAMBDA c : c.op = op)
IsPrefix(p, q) == Len(p) <= Len(q) /\ p = SubSeq(q, 1, Len(p))

\* the request passed provider resolution and took the stateful path
Stateful(r) == r.pc # "idle" /\ r.error # "ValueError" /\ r.mem \in {"rolling", "window"}
               /\ r.session_id # None
\* the log key of a stateful request, its log now and as the request found it
KeyOf(r) == _key_messages(Val(r.session_id))
LogOf(r) == redis_lists[KeyOf(r)]
PreLogOf(r) == r.pre_lists[KeyOf(r)]
NewPair(r) == << _serialize_message(Message("user", r.prompt)),
                 _serialize_message(Message("assistant", r.reply)) >>
StoreAsFound(r) == redis_lists = r.pre_lists /\ redis_strings = r.pre_strings

\* C1: after a completed window-mode request with effective window_size W >= 1
\* the persisted log is the last min(W, n+2) entries of (the log before the
\* request, the new user message, the new assistant message); so it has at
\* most W entries.
C1_WindowLogIsLastW ==
    \A w \in Workers :
        LET r == req[w] IN
        (Stateful(r) /\ r.mem = "window" /\ r.pc = "done" /\ EffWindow(r) >= 1) =>
            /\ LogOf(r) = LastN(PreLogOf(r) \o NewPair(r),
                                Min2(EffWindow(r), Len(PreLogOf(r)) + 2))
            /\ Len(LogOf(r)) <= EffWindow(r)

\* C1 witness: a window-mode request has completed on a log that held more
\* entries than the window, and exactly W entries remain
C1_Witness ==
    \E w \in Workers :
        LET r == req[w] IN
        /\ Stateful(r) /\ r.mem = "window" /\ r.pc = "done" /\ EffWindow(r) >= 1
        /\ Len(PreLogOf(r)) > EffWindow(r)
        /\ Len(LogOf(r)) = EffWindow(r)

\* the text handed to generate by a stateful request that has reached it
Sent(r) == CallsTo(r, "generate")[1].text
\* the prompt compiled from the request's summary and the given stored entries
\* followed by the new user message
PromptFrom(r, stored) ==
    compiled_prompt([summary |-> r.session.summary,
                     messages |-> Append(Deserialized(stored), Message("user", r.prompt))])
WindowSent(r) ==
    /\ Stateful(r) /\ r.mem = "window" /\ CallsTo(r, "generate") # <<>>
    /\ EffWindow(r) >= 1 /\ Len(PreLogOf(r)) > EffWindow(r)

\* C2 as stated: in window mode with more stored messages than window_size, the
\* transcript sent to generate holds the window_size most recent stored messages
\* followed by the new user message (window_size + 1 message lines); taken
\* with fetch-N >= window_size, so that the fetch can supply such a window.
C2_Original ==
    \A w \in Workers :
        LET r == req[w] IN
        (WindowSent(r) /\ settings.fetch_last_n >= EffWindow(r)) =>
            Sent(r) = PromptFrom(r, LastN(PreLogOf(r), EffWindow(r)))

\* C2 amended: in window mode with more stored messages than window_size >= 1
\* (and fetch-N >= 1, fetch-N >= window_size - 1), the transcript sent to generate
\* holds exactly window_size message lines: the window_size - 1 most recent
\* stored messages followed by the new user message.
C2_WindowIncludesUser ==
    \A w \in Workers :
        LET r == req[w] IN
        (WindowSent(r) /\ settings.fetch_last_n >= 1
                       /\ settings.fetch_last_n >= EffWindow(r) - 1) =>
            /\ Sent(r) = PromptFrom(r, LastN(PreLogOf(r), EffWindow(r) - 1))
            /\ Len(r.session.messages) = EffWindow(r)

\* C2 witness: a window of 3 was sent from a log of 4 stored messages
C2_Witness ==
    \E w \in Workers :
        LET r == req[w] IN
        /\ WindowSent(r) /\ settings.fetch_last_n >= EffWindow(r) - 1
        /\ settings.fetch_last_n >= 1
        /\ EffWindow(r) = 3 /\ Len(PreLogOf(r)) = 4

\* the calls of a rolling-mode request that compacts, in order
CompactingOps ==
    << "get_summary", "get_last_messages", "summarize", "set_summary",
       "trim_messages", "generate", "rpush", "rpush" >>
\* rolling mode, fetched, over the threshold, more than max_messages messages
\* (the new user message included) and 1 <= keep_last < that count
RollingTriggered(r) ==
    /\ Stateful(r) /\ r.mem = "rolling" /\ Len(r.calls) >= 2
    /\ estimate_tokens(transcript(r.before)) > settings.max_tokens_before_summarize
    /\ Len(r.before.messages) > EffMaxMessages(r)
    /\ 1 <= EffKeepLast(r) /\ EffKeepLast(r) < Len(r.before.messages)
\* what C3 promises of such a request
RollingCompacts(r) ==
    /\ IsPrefix(Ops(r), CompactingOps)
    /\ r.summarize_out # None =>
         /\ Len(r.session.messages) = EffKeepLast(r)
         /\ r.session.messages = LastN(r.before.messages, EffKeepLast(r))
         /\ r.session.summary = strip(Val(r.summarize_out))
    /\ Len(r.calls) >= 4 =>
         r.calls[4] = Call("set_summary", Val(r.session_id), 0, r.session.summary)
    /\ Len(r.calls) >= 5 =>
         r.calls[5] = Call("trim_messages", Val(r.session_id), EffKeepLast(r), <<>>)

\* C3 as stated: a rolling-mode request over the threshold with more than
\* max_messages messages and 1 <= keep_last < count ends with exactly keep_last
\* in-memory messages and the summary summarize returned, and the store receives
\* set_summary, then trim_messages(session_id, keep_last), before generate and
\* before the new pair is appended.
C3_Original == \A w \in Workers : RollingTriggered(req[w]) => RollingCompacts(req[w])

\* C3 amended: the same, for an effective max_messages >= 1.
C3_RollingCompaction ==
    \A w \in Workers :
        (RollingTriggered(req[w]) /\ EffMaxMessages(req[w]) >= 1) => RollingCompacts(req[w])

\* C3 witness: a compacting rolling-mode request has completed
C3_Witness ==
    \E w \in Workers :
        /\ RollingTriggered(req[w]) /\ EffMaxMessages(req[w]) >= 1
        /\ req[w].pc = "done" /\ Ops(req[w]) = CompactingOps

\* C4: a request with no session id, or with memory mode none, makes no store
\* call, calls generate exactly once on the raw prompt, and leaves every
\* session's log and summary as they were.
C4_StatelessTouchesNothing ==
    \A w \in Workers :
        LET r == req[w] IN
        (r.pc # "idle" /\ r.error # "ValueError"
            /\ (r.session_id = None \/ r.memory = Some("none"))) =>
            /\ StoreAsFound(r)
            /\ IsPrefix(r.calls, << Call("generate", "", 0, r.prompt) >>)
            /\ r.pc \in {"done", "failed"} => Len(r.calls) = 1
            /\ r.pc \in {"generate_raw", "done", "failed"}

\* C4 witness: a request that named a session but chose mode none has
\* completed while that session had a stored log
C4_Witness ==
    \E w \in Workers :
        LET r == req[w] IN
        /\ r.pc = "done" /\ r.session_id # None /\ r.memory = Some("none")
        /\ PreLogOf(r) # <<>>

\* the selector names no backend, or names Gemini with no credential configured
Unresolvable(r) ==
    \/ r.provider = ChatGptText
    \/ r.provider = GeminiText /\ settings.google_api_key = <<>>

\* C5: a request whose provider cannot be resolved fails validation with no
\* backend call and no store call, and the persisted state is unchanged.
C5_ProviderFailsFirst ==
    \A w \in Workers :
        LET r == req[w] IN
        (r.pc # "idle" /\ Unresolvable(r)) =>
            /\ r.pc = "failed" /\ r.error = "ValueError"
            /\ r.calls = <<>>
            /\ StoreAsFound(r)

\* C5 witness: an unknown selector was refused for a session with a stored log
C5_Witness ==
    \E w \in Workers :
        LET r == req[w] IN
        /\ r.pc = "failed" /\ r.provider = ChatGptText /\ r.session_id # None
        /\ PreLogOf(r) # <<>>

\* C8: once ask has computed them, the effective max_messages, keep_last and
\* window_size of a request are its overrides whenever overrides are supplied
\* (any integer), and the trims the store receives carry those values.
C8_OverrideWins ==
    \A w \in Workers :
        LET r == req[w] IN
        (Stateful(r) /\ Len(r.calls) >= 2) =>
            /\ r.max_messages # None => r.max_msg = Val(r.max_messages)
            /\ r.keep_last # None => r.keep_last_n = Val(r.keep_last)
            /\ r.window_size # None => r.win_size = Val(r.window_size)
            /\ \A k \in 1..Len(r.calls) :
                 r.calls[k].op = "trim_messages" =>
                    /\ (r.mem = "window" /\ r.window_size # None)
                          => r.calls[k].n = Val(r.window_size)
                    /\ (r.mem = "rolling" /\ r.keep_last # None)
                          => r.calls[k].n = Val(r.keep_last)

\* C9: in the stateful path generate is called at most once; the user and the
\* assistant message are pushed only after it returned, as one pair, user
\* first; a request whose generate fails has failed and appended neither.
C9_AppendAfterGenerate ==
    \A w \in Workers :
        LET r == req[w]
            ops == Ops(r)
            pushes == {k \in 1..Len(ops) : ops[k] = "rpush"}
        IN Stateful(r) =>
            /\ Len(CallsTo(r, "generate")) <= 1
            /\ \A k \in pushes : \E j \in 1..(k - 1) : ops[j] = "generate"
            /\ Cardinality(pushes) <= 2
            /\ r.pc \in {"rpush_user", "rpush_assistant", "trim_window", "done"}
                  => Len(CallsTo(r, "generate")) = 1
            /\ r.pc \in {"trim_window", "done"} =>
                  /\ \E k \in pushes : pushes = {k, k + 1} /\ ops[k - 1] = "generate"
                  /\ [k \in 1..2 |-> CallsTo(r, "rpush")[k].text] = <<r.prompt, r.reply>>
                  /\ LastN(appended[KeyOf(r)], 2) = NewPair(r)
            /\ r.pc = "trim_window" => LastN(LogOf(r), 2) = NewPair(r)
            /\ r.pc = "failed" =>
                  /\ pushes = {}
                  /\ \A k \in 1..Len(appended[KeyOf(r)]) :
                        appended[KeyOf(r)][k][2] # r.prompt

\* C9 witness: a stateful request has completed after pushing its pair onto a
\* log that already held an earlier pair
C9_Witness ==
    \E w \in Workers :
        LET r == req[w] IN
        /\ Stateful(r) /\ r.pc = "done"
        /\ Len(CallsTo(r, "rpush")) = 2
        /\ Len(appended[KeyOf(r)]) >= 4

\* C10: in every reachable log each user message is immediately followed by the
\* assistant reply of the same request (or is the newest entry while that
\* request is between its two pushes).
C10_PairsAreAdjacent ==
    \A key \in ListKeys :
        LET log == redis_lists[key] IN
        \A k \in 1..Len(log) :
            log[k][1] = "user" =>
                \/ k < Len(log) /\ log[k + 1] = <<"assistant", <<"a", log[k][2][2]>>>>
                \/ k = Len(log) /\ \E w \in Workers :
                        req[w].pc = "rpush_assistant" /\ req[w].prompt = log[k][2]

(* ------------------- properties of a crashed request ------------------- *)
\* worker 1 died in window mode between the second RPUSH and the trim
CrashedBeforeTrim(c) ==
    /\ c.pc = "crashed" /\ Stateful(c) /\ c.mem = "window"
    /\ Ops(c)[Len(c.calls)] = "rpush" /\ Len(CallsTo(c, "rpush")) = 2
\* r is the first request after that crash: same session, window mode, the
\* same effective window_size >= 1, and it has reached generate
NextAfterCrash(c, r) ==
    /\ CrashedBeforeTrim(c)
    /\ r.n = c.n + 1 /\ Stateful(r) /\ r.mem = "window"
    /\ r.session_id = c.session_id
    /\ EffWindow(r) = EffWindow(c) /\ EffWindow(r) >= 1
    /\ settings.fetch_last_n >= 1
    /\ CallsTo(r, "generate") # <<>>
\* the log the crashed request would have left had its trim run
HadTrimCompleted(c) == LastN(PreLogOf(c) \o NewPair(c), EffWindow(c))

\* C11: when a window-mode request died after appending its pair and before
\* trim_messages, the next window-mode request for that session (same
\* window_size >= 1, fetch-N >= 1) sends generate exactly the prompt it would
\* have sent had that trim run, and once completed leaves at most window_size
\* entries in the log.
C11_CrashSelfCorrects ==
    LET c == req[1]
        r == req[2]
        W == EffWindow(r)
    IN NextAfterCrash(c, r) =>
        /\ PreLogOf(r) = PreLogOf(c) \o NewPair(c)
        /\ Sent(r) = compiled_prompt(
              [summary |-> r.before.summary,
               messages |-> LastN(Append(Deserialized(
                                LastN(HadTrimCompleted(c), settings.fetch_last_n)),
                                Message("user", r.prompt)), W)])
        /\ r.pc = "done" =>
              /\ Len(LogOf(r)) <= W
              /\ LogOf(r) = LastN(HadTrimCompleted(c) \o NewPair(r), W)

\* C11 witness: the request after the crash has completed, and the crash had
\* left more than window_size entries in the log
C11_Witness ==
    /\ NextAfterCrash(req[1], req[2])
    /\ req[2].pc = "done"
    /\ Len(PreLogOf(req[2])) > EffWindow(req[2])
    /\ Len(LogOf(req[2])) = EffWindow(req[2])

(* ----------------------- one session at a time ------------------------- *)
OtherSessions(r) == SessionIds \ {Val(r.session_id)}
\* the summary of the request's session as the request found it
PreSummaryOf(r) ==
    LET val == r.pre_strings[_key_summary(Val(r.session_id))]
    IN IF val = None THEN <<>> ELSE strip(Val(val))

\* C12: a request for session A, in any mode, running, completed or failed,
\* leaves the log and the summary of every other session as it found them, and
\* the session it compiles its transcript from is built from A's stored summary,
\* a trailing part of A's stored log and the new prompt.
C12_SessionIsolation ==
    \A w \in Workers :
        LET r == req[w] IN
        (r.pc # "idle" /\ r.session_id # None) =>
            /\ \A sid \in OtherSessions(r) :
                 /\ redis_lists[_key_messages(sid)] = r.pre_lists[_key_messages(sid)]
                 /\ redis_strings[_key_summary(sid)] = r.pre_strings[_key_summary(sid)]
            /\ (Stateful(r) /\ Len(r.calls) >= 2) =>
                 /\ r.before.summary = PreSummaryOf(r)
                 /\ \E k \in 0..Len(PreLogOf(r)) :
                      r.before.messages =
                          Append(Deserialized(LastN(PreLogOf(r), k)),
                                 Message("user", r.prompt))
            /\ \A k \in 1..Len(r.calls) : r.calls[k].sid \in {"", Val(r.session_id)}

\* C12 witness: a request for one session has written its summary, trimmed
\* and appended while another session held a log of its own
C12_Witness ==
    \E w \in Workers :
        LET r == req[w] IN
        /\ Stateful(r) /\ r.pc = "done"
        /\ "set_summary" \in {Ops(r)[k] : k \in 1..Len(r.calls)}
        /\ LogOf(r) # PreLogOf(r)
        /\ \E sid \in OtherSessions(r) : redis_lists[_key_messages(sid)] # <<>>

(* ------------------- what compaction does to history ------------------ *)
\* text a occurs in text b
IsInfix(a, b) == \E i \in 1..(Len(b) - Len(a) + 1) : SubSeq(b, i, i + Len(a) - 1) = a
Elems(lst) == {lst[k] : k \in 1..Len(lst)}
\* the stored entry e was part of a text this request passed to summarize
Summarized(r, e) ==
    \E k \in 1..Len(r.calls) :
        /\ r.calls[k].op = "summarize"
        /\ IsInfix(MessageLine(_deserialize_message(e)), r.calls[k].text)
\* rolling mode, and the request has issued its trim_messages
RollingTrimmed(r) ==
    /\ Stateful(r) /\ r.mem = "rolling"
    /\ \E k \in 1..Len(r.calls) : r.calls[k].op = "trim_messages"

\* C13: in rolling mode a request removes a message from the persisted log only
\* if that message was part of the text it passed to summarize: every stored
\* message is still in the log afterwards or was folded into the summary.
C13_NoHistoryLost ==
    \A w \in Workers :
        LET r == req[w] IN
        RollingTrimmed(r) =>
            \A e \in Elems(PreLogOf(r)) \ Elems(LogOf(r)) : Summarized(r, e)

\* a rolling-mode request that called summarize and has issued its trim
Compacted(r) == RollingTrimmed(r) /\ r.summarize_out # None

\* C14: after a rolling-mode request that compacts, no message that was part
\* of the summarize input is still in the persisted log: the stored summary
\* covers only history older than what the log retains.
C14_SummaryPrecedesLog ==
    \A w \in Workers :
        LET r == req[w] IN
        Compacted(r) => \A e \in Elems(LogOf(r)) : ~Summarized(r, e)

(* ------------------- the prompt carries the question ------------------- *)
\* the end of a compiled prompt whose last message line is the new user
\* message: that line (its trailing blanks stripped), then the marker
EndsWithUserLine(r) ==
    IsSuffix(NL \o rstrip(MessageLine(Message("user", r.prompt))) \o AssistantMarker,
             Sent(r))
Generated(r) == Stateful(r) /\ CallsTo(r, "generate") # <<>>

\* C15 as stated: in every stateful ask, for every configuration and every
\* override, the compiled prompt sent to generate has the new user message as
\* its last message line, right before the assistant-turn marker.
C15_Original == \A w \in Workers : Generated(req[w]) => EndsWithUserLine(req[w])

\* C15 amended: the same, except in window mode with an effective
\* window_size <= 0, where the window holds no message at all.
C15_PromptEndsWithUser ==
    \A w \in Workers :
        LET r == req[w] IN
        (Generated(r) /\ (r.mem = "window" => EffWindow(r) >= 1)) => EndsWithUserLine(r)

\* C15 witness: a rolling-mode request that compacted, and whose prompt ends in
\* a blank, has sent its compiled prompt
C15_Witness ==
    \E w \in Workers :
        LET r == req[w] IN
        /\ Generated(r) /\ r.mem = "rolling" /\ r.summarize_out # None
        /\ r.prompt # rstrip(r.prompt)

(* ------------------------ a failing summarize -------------------------- *)
\* the request called summarize and summarize did not return
SummarizeFailed(r) ==
    /\ Stateful(r) /\ r.mem = "rolling"
    /\ CallsTo(r, "summarize") # <<>> /\ r.summarize_out = None

\* C16: when summarize fails in rolling mode the request fails, the stored
\* summary and log are as the request found them, and the only calls made are
\* the two fetches and that one summarize: no set_summary, no trim_messages, no
\* append, no second summarize, no generate.
C16_SummarizeFailureChangesNothing ==
    \A w \in Workers :
        LET r == req[w] IN
        SummarizeFailed(r) =>
            /\ r.pc = "failed" /\ r.error = "BackendError"
            /\ Ops(r) = << "get_summary", "get_last_messages", "summarize" >>
            /\ StoreAsFound(r)

\* C16 witness: summarize has failed for a session that already had a stored
\* summary and a stored log
C16_Witness ==
    \E w \in Workers :
        LET r == req[w] IN
        /\ SummarizeFailed(r) /\ r.pc = "failed"
        /\ PreLogOf(r) # <<>>
        /\ r.pre_strings[_key_summary(Val(r.session_id))] # None

(* ------------- properties of the memory strategies --------------------- *)
\* apply_rolling_summary was called with more than max_messages > 0 messages
\* and 0 <= keep_last < message count, and summarize returned a summary
RollingApplies(a) ==
    /\ a.op = "apply_rolling_summary" /\ ~a.raised
    /\ a.max_messages > 0 /\ Len(a.session.messages) > a.max_messages
    /\ 0 <= a.keep_last /\ a.keep_last < Len(a.session.messages)
    /\ a.out = None \/ strip(Val(a.out)) # <<>>

\* C17: apply_rolling_summary on more than max_messages > 0 messages with
\* 0 <= keep_last < message count leaves exactly keep_last messages, the
\* trailing slice of the original list, and a summary that is the non-empty
\* stripped output of one summarize call whose input held every older message
\* and, when it was non-empty, the previous summary.
C17_RollingSummaryApplies ==
    LET a == applied
        n == Len(a.session.messages)
    IN RollingApplies(a) =>
        /\ Len(a.result.messages) = a.keep_last
        /\ a.result.messages = LastN(a.session.messages, a.keep_last)
        /\ Len(a.summarize) = 1 /\ a.out # None
        /\ a.result.summary = strip(Val(a.out)) /\ a.result.summary # <<>>
        /\ \A k \in 1..(n - a.keep_last) :
              IsInfix(MessageLine(a.session.messages[k]), a.summarize[1].text)
        /\ strip(a.session.summary) # <<>> =>
              IsInfix(strip(a.session.summary), a.summarize[1].text)

\* apply_rolling_summary was called where there is nothing to compact:
\* max_messages <= 0, or no more than max_messages messages, or keep_last at
\* least the message count
NothingToCompact(a) ==
    /\ a.op = "apply_rolling_summary"
    /\ \/ a.max_messages <= 0
       \/ Len(a.session.messages) <= a.max_messages
       \/ a.keep_last >= Len(a.session.messages)

\* C18: apply_rolling_summary is a no-op whenever max_messages <= 0, or the
\* message count is at most max_messages, or older is empty because keep_last
\* is at least the message count: summary and messages are unchanged and
\* summarize is not called.
C18_RollingNoOp ==
    NothingToCompact(applied) =>
        /\ applied.result = applied.session
        /\ applied.summarize = <<>> /\ ~applied.raised /\ applied.out = None

\* C18 witness: a call with max_messages > 0 and more messages than that, but
\* keep_last beyond the message count, left a Session with a summary as it was
C18_Witness ==
    /\ NothingToCompact(applied)
    /\ applied.max_messages > 0
    /\ Len(applied.session.messages) > applied.max_messages
    /\ applied.keep_last > Len(applied.session.messages)
    /\ applied.session.summary = <<"s", "0">>
    /\ applied.result = applied.session

\* C19: apply_sliding_window with window_size > 0 leaves the trailing
\* min(len, window_size) messages in their order, with window_size <= 0 it
\* leaves none, and it never changes the summary.
C19_SlidingWindow ==
    LET a == applied
        n == Len(a.session.messages)
    IN a.op = "apply_sliding_window" =>
        /\ a.result.summary = a.session.summary
        /\ a.window_size > 0 =>
              /\ Len(a.result.messages) = Min2(n, a.window_size)
              /\ a.result.messages = SubSeq(a.session.messages,
                                            n - Min2(n, a.window_size) + 1, n)
        /\ a.window_size <= 0 => a.result.messages = <<>>

\* C19 witness: a window of 2 was cut from a Session of 4 messages that has a
\* summary
C19_Witness ==
    /\ applied.op = "apply_sliding_window"
    /\ applied.window_size = 2 /\ Len(applied.session.messages) = 4
    /\ applied.session.summary # <<>>
    /\ Len(applied.result.messages) = 2

(* ------------------- properties of estimate_tokens --------------------- *)
Blank(text) == \A k \in 1..Len(text) : text[k] \in Whitespace

\* C20: estimate_tokens gives 0 for an empty or whitespace-only text, and
\* never gives less for text + more than for text.
C20_EstimateMonotone ==
    applied.op = "estimate_tokens" =>
        /\ Blank(applied.text) => applied.tokens = 0
        /\ Blank(applied.text \o applied.more) => applied.tokens_more = 0
        /\ applied.tokens <= applied.tokens_more

\* C20 witness: a text of one token was extended into one of two tokens, and
\* a blank text was estimated
C20_Witness ==
    /\ applied.op = "estimate_tokens"
    /\ applied.tokens = 1 /\ applied.tokens_more = 2
    /\ Blank(applied.more) /\ applied.more # <<>>

====
